---- MODULE Spec2Model ----
(***************************************************************************)
(* Messaging orchestration of messaging-service: outbound sends through    *)
(* the retry engine, inbound webhook ingestion with the provider-id        *)
(* idempotency lookup, contact normalisation and conversation get-or-create *)
(* against the PostgreSQL repositories.                                    *)
(*                                                                         *)
(* Every request runs on its own task (goroutine).  A step of a task is    *)
(* one call that leaves the process: a provider call, one SQL statement,   *)
(* or the select that waits for the backoff timer or the context.          *)
(***************************************************************************)
EXTENDS Integers, Sequences, FiniteSets, TLC

(***************************************************************************)
(* Bounds of the model.                                                    *)
(***************************************************************************)
MaxOps == 2         \* operations (requests, webhooks) of one behaviour, each on its own task
NowSec == 847152000 \* time.Now(): 2026-11-05T00:00:00Z in seconds since 2000-01-01T00:00:00Z
MaxAttempt == 7     \* largest attempt index a delay is computed for on its own

Tasks == 1..MaxOps

(***************************************************************************)
(* Strings are sequences of byte values, compared as Go compares strings.  *)
(***************************************************************************)
RECURSIVE StrLess(_, _)
StrLess(s, t) ==
    IF t = <<>> THEN FALSE
    ELSE IF s = <<>> THEN TRUE
    ELSE IF Head(s) # Head(t) THEN Head(s) < Head(t)
    ELSE StrLess(Tail(s), Tail(t))

\* strings.Contains(s, c) for a one-byte c
Contains(s, c) == \E i \in 1..Len(s) : s[i] = c

\* strings.ReplaceAll(s, c, "") for a one-byte c
RemoveAll(s, c) == SelectSeq(s, LAMBDA x : x # c)

\* strings.TrimSpace(s) = ""  (space, \t, \n, \v, \f, \r)
IsBlank(s) == \A i \in 1..Len(s) : s[i] \in {32, 9, 10, 11, 12, 13}

\* the addresses and texts of the requests, as byte strings
P12 == <<49, 50>>           \* "12"
P1d2 == <<49, 45, 50>>      \* "1-2"
P3 == <<51>>                \* "3"
Eax == <<97, 64, 120>>      \* "a@x"
Ebx == <<98, 64, 120>>      \* "b@x"
Empty == <<>>               \* ""
Blank == <<32>>             \* " "
Hi == <<104, 105>>          \* "hi"
Pid1 == <<109, 49>>         \* "m1"
Pid2 == <<109, 50>>         \* "m2"

MessageTypeSMS == "sms"
MessageTypeMMS == "mms"
MessageTypeEmail == "email"

(***************************************************************************)
(* domain: provider errors                                                 *)
(***************************************************************************)
NoErr == [class |-> "nil", code |-> 0, retryAfter |-> 0]
\* &domain.ProviderError{Code: c, RetryAfter: ra}
ProviderError(c, ra) == [class |-> "ProviderError", code |-> c, retryAfter |-> ra]
\* any other error value (fmt.Errorf, a transport error)
OtherError == [class |-> "error", code |-> 0, retryAfter |-> 0]
\* ctx.Err() of a cancelled context
CtxErr == [class |-> "context", code |-> 0, retryAfter |-> 0]

\* a classifier that retries every provider error, whatever its code
IsRetryableErrorAnyCode(err) == err.class = "ProviderError"

IsRetryableError(err) ==
    IF err.class = "ProviderError"
    THEN err.code = 429 \/ err.code = 500 \/ err.code = 502
         \/ err.code = 503 \/ err.code = 504
    ELSE FALSE

\* a hint taken from any provider error, whatever its code
GetRetryAfterSecondsAnyCode(err) ==
    IF err.class = "ProviderError" THEN err.retryAfter ELSE 0

GetRetryAfterSeconds(err) ==
    IF err.class = "ProviderError" /\ err.code = 429 THEN err.retryAfter ELSE 0

(***************************************************************************)
(* RetryConfig (DefaultRetryConfig), durations in milliseconds             *)
(***************************************************************************)
MaxRetries == 3
BaseDelay == 1000
MaxDelay == 60000
Second == 1000

\* a shift that grows by one per attempt
Shl1Linear(n) == n + 1

\* 1 << n
RECURSIVE Shl1(_)
Shl1(n) == IF n = 0 THEN 1 ELSE 2 * Shl1(n - 1)

\* the delay retryWithBackoff waits after the failed attempt `attempt`
BackoffDelay(attempt, err) ==
    LET exp == BaseDelay * Shl1(attempt)
        capped == IF exp > MaxDelay THEN MaxDelay ELSE exp
        retryAfter == GetRetryAfterSeconds(err)
        retryDelay == retryAfter * Second
    IN  IF retryAfter > 0
        THEN IF retryDelay < MaxDelay THEN retryDelay ELSE MaxDelay
        ELSE capped

\* a last-attempt test that gives up one attempt early
LastAttemptEarly(attempt) == attempt + 1 >= MaxRetries

\* if attempt == s.retryConfig.MaxRetries
LastAttempt(attempt) == attempt = MaxRetries

(***************************************************************************)
(* Contact normalisation                                                   *)
(***************************************************************************)
normalizeContacts(customerContact, businessContact) ==
    IF Contains(customerContact, 64) /\ Contains(businessContact, 64)
    THEN \* sort.Strings
         IF StrLess(businessContact, customerContact)
         THEN <<businessContact, customerContact>>
         ELSE <<customerContact, businessContact>>
    ELSE LET cleanCustomer == RemoveAll(customerContact, 45)
             cleanBusiness == RemoveAll(businessContact, 45)
         IN  IF StrLess(cleanCustomer, cleanBusiness)
             THEN <<customerContact, businessContact>>
             ELSE <<businessContact, customerContact>>

(***************************************************************************)
(* Validation                                                              *)
(***************************************************************************)
TenYears == 315532800   \* now - now.AddDate(-10, 0, 0) in seconds, for NowSec
FiveMinutes == 300
Year2000 == 0

\* a timestamp check without the allowance for clock skew
validateTimestampNoSkew(ts, now) ==
    IF ts.zone # "UTC" THEN "timestamp must be in UTC timezone"
    ELSE IF ts.zero THEN "timestamp cannot be zero"
    ELSE IF ts.sec > now THEN "timestamp cannot be in the future"
    ELSE IF ts.sec < now - TenYears THEN "timestamp too old"
    ELSE IF ts.sec < Year2000 THEN "timestamp before year 2000 is not allowed"
    ELSE "ok"

\* a timestamp check that tests the year 2000 before the age
validateTimestampYear2000First(ts, now) ==
    IF ts.zone # "UTC" THEN "timestamp must be in UTC timezone"
    ELSE IF ts.zero THEN "timestamp cannot be zero"
    ELSE IF ts.sec > now + FiveMinutes THEN "timestamp cannot be in the future"
    ELSE IF ts.sec < Year2000 THEN "timestamp before year 2000 is not allowed"
    ELSE IF ts.sec < now - TenYears THEN "timestamp too old"
    ELSE "ok"

validateTimestamp(ts, now) ==
    IF ts.zone # "UTC" THEN "timestamp must be in UTC timezone"
    ELSE IF ts.zero THEN "timestamp cannot be zero"
    ELSE IF ts.sec > now + FiveMinutes THEN "timestamp cannot be in the future"
    ELSE IF ts.sec < now - TenYears THEN "timestamp too old"
    ELSE IF ts.sec < Year2000 THEN "timestamp before year 2000 is not allowed"
    ELSE "ok"

validateSMSRequest(req, now) ==
    IF IsBlank(req.from) THEN "from address cannot be empty"
    ELSE IF IsBlank(req.to) THEN "to address cannot be empty"
    ELSE IF IsBlank(req.body) THEN "message body cannot be empty"
    ELSE IF req.type # MessageTypeSMS /\ req.type # MessageTypeMMS
         THEN "invalid message type"
    ELSE validateTimestamp(req.ts, now)

validateEmailRequest(req, now) ==
    IF IsBlank(req.from) THEN "from address cannot be empty"
    ELSE IF IsBlank(req.to) THEN "to address cannot be empty"
    ELSE IF IsBlank(req.body) THEN "message body cannot be empty"
    ELSE validateTimestamp(req.ts, now)

validateInboundSMSWebhook(req, now) ==
    IF IsBlank(req.from) THEN "from address cannot be empty"
    ELSE IF IsBlank(req.to) THEN "to address cannot be empty"
    ELSE IF IsBlank(req.body) THEN "message body cannot be empty"
    ELSE IF req.type # MessageTypeSMS /\ req.type # MessageTypeMMS
         THEN "invalid message type"
    ELSE IF IsBlank(req.pid) THEN "messaging provider ID cannot be empty"
    ELSE validateTimestamp(req.ts, now)

validateInboundEmailWebhook(req, now) ==
    IF IsBlank(req.from) THEN "from address cannot be empty"
    ELSE IF IsBlank(req.to) THEN "to address cannot be empty"
    ELSE IF IsBlank(req.body) THEN "message body cannot be empty"
    ELSE IF IsBlank(req.pid) THEN "xillio ID cannot be empty"
    ELSE validateTimestamp(req.ts, now)

Outbound(req) == req.kind \in {"SendSMS", "SendEmail"}

\* a validator that accepts every request
ValidateAccepts(req, now) == "ok"

\* the validator each operation runs first
Validate(req, now) ==
    CASE req.kind = "SendSMS" -> validateSMSRequest(req, now)
      [] req.kind = "SendEmail" -> validateEmailRequest(req, now)
      [] req.kind = "HandleInboundSMS" -> validateInboundSMSWebhook(req, now)
      [] req.kind = "HandleInboundEmail" -> validateInboundEmailWebhook(req, now)

(***************************************************************************)
(* The requests and webhooks the callers submit, and what the providers    *)
(* answer.                                                                 *)
(***************************************************************************)
Timestamp(zone, zero, sec) == [zone |-> zone, zero |-> zero, sec |-> sec]
ValidTs == Timestamp("UTC", FALSE, NowSec)

Request(kind, from, to, type, body, pid, ts) ==
    [kind |-> kind, from |-> from, to |-> to, type |-> type, body |-> body,
     pid |-> pid, ts |-> ts]

\* address pairs (from, to): both directions, a dash variant of one address,
\* and two addresses that differ only by a dash
PhonePairs == {<<P12, P3>>, <<P3, P12>>, <<P1d2, P3>>, <<P12, P1d2>>, <<P1d2, P12>>}
EmailPairs == {<<Eax, Ebx>>, <<Ebx, Eax>>}

ValidRequests ==
    {Request("SendSMS", p[1], p[2], MessageTypeSMS, Hi, Empty, ValidTs) : p \in PhonePairs}
    \cup {Request("SendSMS", P3, P12, MessageTypeMMS, Hi, Empty, ValidTs)}
    \cup {Request("SendEmail", p[1], p[2], MessageTypeEmail, Hi, Empty, ValidTs) :
            p \in EmailPairs \cup {<<P3, P12>>}}
    \cup {Request("HandleInboundSMS", p[1], p[2], MessageTypeSMS, Hi, Pid1, ValidTs) :
            p \in {<<P3, P12>>, <<P12, P3>>}}
    \cup {Request("HandleInboundSMS", P3, P12, MessageTypeMMS, Hi, Pid2, ValidTs)}
    \cup {Request("HandleInboundEmail", Ebx, Eax, MessageTypeEmail, Hi, pid, ValidTs) :
            pid \in {Pid1, Pid2}}

InvalidRequests ==
    {Request("SendSMS", Blank, P3, MessageTypeSMS, Hi, Empty, ValidTs),
     Request("SendSMS", P12, P3, MessageTypeEmail, Hi, Empty, ValidTs),
     Request("SendEmail", Eax, Ebx, MessageTypeEmail, Empty, Empty, ValidTs),
     Request("HandleInboundSMS", P3, P12, MessageTypeSMS, Hi, Blank, ValidTs),
     Request("HandleInboundEmail", Ebx, Eax, MessageTypeEmail, Hi, Pid1,
             Timestamp("Local", FALSE, NowSec))}

Requests == ValidRequests \cup InvalidRequests

\* what one provider call returns
ProviderOutcomes ==
    {NoErr, OtherError, ProviderError(400, 0), ProviderError(429, 0),
     ProviderError(429, 30), ProviderError(500, 0), ProviderError(501, 0),
     ProviderError(502, 0), ProviderError(503, 0), ProviderError(504, 0)}

(***************************************************************************)
(* State                                                                   *)
(***************************************************************************)
VARIABLES
    conversations,  \* rows of table conversations
    messages,       \* rows of table messages
    task,           \* the request tasks: position and locals of each
    started,        \* operations started so far
    overlap,        \* history: the store calls of two operations interleaved
    call            \* a call of a pure function of the service: its arguments and result

vars == <<conversations, messages, task, started, overlap, call>>

\* no pure function has been called on its own
NoCall == [fn |-> "none", args |-> << >>, out |-> << >>]

NoRequest == Request("none", Empty, Empty, "", Empty, Empty, ValidTs)

IdleTask ==
    [pc |-> "idle", req |-> NoRequest, ctxDone |-> FALSE, cancelPc |-> "",
     attempt |-> 0, delay |-> 0, calls |-> 0, firstOk |-> 0, fails |-> 0,
     delays |-> 0, last |-> NoErr, retryErr |-> NoErr, conv |-> 0,
     conflict |-> FALSE, result |-> "", err |-> NoErr, convRows |-> 0,
     msgRows |-> 0, storeCalls |-> 0, storeFailed |-> "", delivered |-> FALSE,
     hit |-> FALSE]

Init ==
    /\ conversations = {}
    /\ messages = {}
    /\ task = [t \in Tasks |-> IdleTask]
    /\ started = 0
    /\ overlap = FALSE
    /\ call = NoCall

Active(t) == task[t].pc \notin {"idle", "done"}

\* Before its first store call an operation reads and writes only the locals
\* of its task (validation, the provider phase), and so does its return to
\* the caller: these steps commute with every step of the other tasks.  They
\* are therefore run to completion before another task steps, and the
\* requests of a behaviour are submitted before the first store call is made;
\* a task then waits for the scheduler in front of its first store call.
\* Every interleaving of the store calls is kept, the one that runs the
\* operations one after the other included.
LocalStep(t) == task[t].pc \in {"provider", "backoff", "sent", "done"}
Scheduled(t) == \A u \in Tasks \ {t} : ~LocalStep(u)

\* the task has made a store call of its operation and has not returned
MidStore(t) ==
    \/ task[t].pc \in {"create_conv", "create_msg"}
    \/ task[t].pc = "get_conv" /\ ~Outbound(task[t].req)

\* the next store call of t is its first
FirstStoreCall(t) ==
    \/ task[t].pc = "lookup"
    \/ task[t].pc = "get_conv" /\ Outbound(task[t].req)

\* history kept by every store call of t
Overlap(t) ==
    overlap' = (overlap \/ (FirstStoreCall(t) /\ \E u \in Tasks \ {t} : MidStore(u)))

Set(t, fields) ==
    task' = [task EXCEPT ![t] = [f \in DOMAIN @ |->
                IF f \in DOMAIN fields THEN fields[f] ELSE @[f]]]

\* the operation returns to its caller
Finish(t, result, err, more) ==
    Set(t, [pc |-> "done", result |-> result, err |-> err] @@ more)

(***************************************************************************)
(* SendSMS, SendEmail, HandleInboundSMS, HandleInboundEmail: entry and     *)
(* validation                                                              *)
(***************************************************************************)
Start(t, req) ==
    /\ task[t].pc = "idle"
    /\ Scheduled(t)
    /\ \A u \in Tasks : u < t => task[u].pc # "idle"   \* the first free task
    /\ \A u \in Tasks : ~MidStore(u)
    /\ conversations = {} /\ messages = {}
    /\ started < MaxOps
    /\ started' = started + 1
    /\ LET v == Validate(req, NowSec)
       IN  IF v # "ok"
           THEN Finish(t, "invalid request", OtherError, [req |-> req])
           ELSE Set(t, [req |-> req,
                        pc |-> IF Outbound(req) THEN "provider" ELSE "lookup"])
    /\ UNCHANGED <<conversations, messages, overlap, call>>

(***************************************************************************)
(* retryWithBackoff, and what SendSMS / SendEmail do with its result       *)
(***************************************************************************)
\* a loop body that does not return on success before its last attempt
RetryDecisionWaitsOnSuccess(attempt, err) ==
    IF LastAttempt(attempt)
    THEN IF err = NoErr THEN "return nil" ELSE "return err"
    ELSE "wait"

\* what the loop body does with the result of operation()
RetryDecision(attempt, err) ==
    IF err = NoErr THEN "return nil"
    ELSE IF ~IsRetryableError(err) THEN "return err"
    ELSE IF LastAttempt(attempt) THEN "return err"
    ELSE "wait"

\* a select none of whose cases ever becomes ready
SelectBlocks(ctxDone, timerFired) == {}

\* a select without the ctx.Done case
SelectTimerOnly(ctxDone, timerFired) ==
    IF timerFired THEN {"time.After"} ELSE {}

\* select { case <-ctx.Done(): ...; case <-time.After(delay): ... }
\* the cases the select can take, given the channels that are ready; it
\* blocks while there is none.  The delay is positive, so the timer is not
\* ready when the select is entered.
Select(ctxDone, timerFired) ==
    (IF ctxDone THEN {"ctx.Done"} ELSE {})
    \cup (IF timerFired THEN {"time.After"} ELSE {})

\* a send that goes on to the message record whatever the engine returned
AfterRetryProceeds(err) == "create message record"

\* if err := s.send...WithRetry(ctx, req); err != nil { return ... }
AfterRetry(err) == IF err # NoErr THEN "return error" ELSE "create message record"

\* retryWithBackoff returns err to the send
RetryReturns(t, err, more) ==
    IF AfterRetry(err) = "return error"
    THEN Finish(t, "provider failed", err, [retryErr |-> err] @@ more)
    ELSE Set(t, [pc |-> "sent", retryErr |-> err] @@ more)

\* one iteration: operation() and what follows it up to the select
ProviderCall(t) ==
    /\ task[t].pc = "provider"
    /\ Scheduled(t)
    /\ \E out \in ProviderOutcomes :
        LET me == task[t]
            d == RetryDecision(me.attempt, out)
            seen == [calls |-> me.calls + 1,
                     firstOk |-> IF out = NoErr /\ me.firstOk = 0
                                 THEN me.calls + 1 ELSE me.firstOk,
                     fails |-> IF out.class = "ProviderError"
                                  /\ out.code \in {429, 500, 502, 503, 504}
                               THEN me.fails + 1 ELSE me.fails,
                     last |-> out,
                     delivered |-> me.delivered \/ out = NoErr]
        IN  CASE d = "return nil" -> RetryReturns(t, NoErr, seen)
              [] d = "return err" -> RetryReturns(t, out, seen)
              [] d = "wait" ->
                    IF "ctx.Done" \in Select(me.ctxDone, FALSE)
                    THEN RetryReturns(t, CtxErr, seen)
                    ELSE Set(t, [pc |-> "backoff",
                                 delay |-> BackoffDelay(me.attempt, out),
                                 delays |-> me.delays + 1] @@ seen)
    /\ UNCHANGED <<conversations, messages, started, overlap, call>>

\* the timer of the select fires: continue with the next iteration
TimerFires(t) ==
    /\ task[t].pc = "backoff"
    /\ Scheduled(t)
    /\ "time.After" \in Select(task[t].ctxDone, TRUE)
    /\ IF task[t].attempt + 1 <= MaxRetries
       THEN Set(t, [pc |-> "provider", attempt |-> task[t].attempt + 1,
                    delay |-> 0, last |-> NoErr])
       ELSE RetryReturns(t, OtherError, << >>)    \* "max retries exceeded"
    /\ UNCHANGED <<conversations, messages, started, overlap, call>>

\* The caller cancels the context of a send.  A task parked in the select of
\* retryWithBackoff is woken by it: its timer has not expired, ctx.Done is the
\* one case that is ready.  (A timer that expires before the task runs again
\* is the behaviour in which TimerFires precedes Cancel.)
Cancel(t) ==
    /\ task[t].pc \in {"provider", "backoff", "sent"}
    /\ Scheduled(t)
    /\ ~task[t].ctxDone
    /\ LET seen == [ctxDone |-> TRUE, cancelPc |-> task[t].pc]
       IN  IF task[t].pc = "backoff" /\ "ctx.Done" \in Select(TRUE, FALSE)
           THEN RetryReturns(t, CtxErr, seen)
           ELSE Set(t, seen)
    /\ UNCHANGED <<conversations, messages, started, overlap, call>>

\* retryWithBackoff returned nil: the send builds its message and enters
\* createMessageRecord; the locals of the retry loop are gone
Sent(t) ==
    /\ task[t].pc = "sent"
    /\ Scheduled(t)
    /\ Set(t, [pc |-> "get_conv", attempt |-> 0, calls |-> 0, firstOk |-> 0,
               fails |-> 0, delays |-> 0, delay |-> 0, last |-> NoErr,
               cancelPc |-> ""])
    /\ UNCHANGED <<conversations, messages, started, overlap, call>>

(***************************************************************************)
(* The PostgreSQL repositories.  A statement run with a cancelled context  *)
(* returns the context's error.                                            *)
(***************************************************************************)
Null == <<-1>>      \* SQL NULL in column provider_message_id
UniqueViolation == [class |-> "unique_violation", code |-> 0, retryAfter |-> 0]

\* a lookup that never finds a row
GetByProviderMessageIDNoRows(providerMessageID) == {}

\* SELECT ... FROM messages WHERE provider_message_id = $1
GetByProviderMessageID(providerMessageID) ==
    {m \in messages : m.provider_message_id = providerMessageID}

\* SELECT ... FROM conversations WHERE (customer_contact = $1 AND
\* business_contact = $2) OR (customer_contact = $2 AND business_contact = $1)
\* The clock, read by CURRENT_TIMESTAMP and time.Now(): it advances by one
\* with every row inserted.
Now == Cardinality(conversations) + Cardinality(messages)

GetByContacts(customerContact, businessContact) ==
    {c \in conversations :
        \/ c.customer_contact = customerContact /\ c.business_contact = businessContact
        \/ c.customer_contact = businessContact /\ c.business_contact = customerContact}

\* UNIQUE(customer_contact, business_contact) of table conversations
ConversationUnique(customerContact, businessContact) ==
    ~\E c \in conversations :
        c.customer_contact = customerContact /\ c.business_contact = businessContact

\* the constraints an INSERT INTO messages must satisfy
MessageInsertable(m) ==
    /\ \E c \in conversations : c.id = m.conversation_id
    /\ m.type \in {MessageTypeSMS, MessageTypeMMS, MessageTypeEmail}
    /\ m.status \in {"pending", "delivered", "failed", "bounced"}

\* a builder that marks every message pending and drops the identifier
BuildMessageAllPending(req) ==
    [from |-> req.from, to |-> req.to, type |-> req.type,
     status |-> "pending", provider_message_id |-> Null]

\* the message the operation builds: buildOutboundMessage / buildInboundMessage
BuildMessage(req) ==
    [from |-> req.from, to |-> req.to,
     type |-> IF req.kind \in {"SendEmail", "HandleInboundEmail"}
              THEN MessageTypeEmail ELSE req.type,
     status |-> IF Outbound(req) THEN "pending" ELSE "delivered",
     provider_message_id |-> IF Outbound(req) THEN Null ELSE req.pid]

\* the pair createMessageRecord hands to GetOrCreate
Contacts(t) == normalizeContacts(task[t].req.from, task[t].req.to)

(***************************************************************************)
(* The result of one SQL statement of task t.  `fault` is a failure of the *)
(* store itself (connection lost, timeout, disk): an opaque error.         *)
(***************************************************************************)
StoreError == [class |-> "store", code |-> 0, retryAfter |-> 0]

StatementError(t, fault) ==
    IF task[t].ctxDone THEN CtxErr
    ELSE IF fault THEN StoreError
    ELSE NoErr

\* history kept by every store call of t: the calls made, the call that failed
StoreCall(t, name, err) ==
    [storeCalls |-> task[t].storeCalls + 1,
     storeFailed |-> IF err # NoErr THEN name ELSE task[t].storeFailed]

\* a handler that goes on to the message record whatever the lookup returned
AfterLookupProceeds(existingMessage, err) == "create message record"

\* if existingMessage, err := ...GetByProviderMessageID(...);
\*    err == nil && existingMessage != nil { return nil }
AfterLookup(existingMessage, err) ==
    IF err = NoErr /\ existingMessage # {}
    THEN "return nil"
    ELSE "create message record"

\* a caller that goes on whatever the store call returned
AfterStoreIgnoresError(err) == "continue"

\* if err != nil { return ... } after GetByContacts, GetOrCreate, Create and
\* createMessageRecord
AfterStore(err) == IF err # NoErr THEN "return error" ELSE "continue"

(***************************************************************************)
(* HandleInboundSMS / HandleInboundEmail: the idempotency lookup           *)
(***************************************************************************)
LookupStep(t, fault) ==
    /\ task[t].pc = "lookup"
    /\ Scheduled(t)
    /\ LET err == StatementError(t, fault)
           existingMessage == IF err = NoErr
                              THEN GetByProviderMessageID(task[t].req.pid) ELSE {}
           seen == StoreCall(t, "GetByProviderMessageID", err)
                   @@ [hit |-> err = NoErr /\ existingMessage # {}]
       IN  IF AfterLookup(existingMessage, err) = "return nil"
           THEN Finish(t, "ok", NoErr, seen)     \* message already processed
           ELSE Set(t, [pc |-> "get_conv"] @@ seen)
    /\ Overlap(t)
    /\ UNCHANGED <<conversations, messages, started, call>>

Lookup(t) == LookupStep(t, FALSE)

(***************************************************************************)
(* createMessageRecord: GetOrCreate (GetByContacts, then Create), then the *)
(* message insert                                                          *)
(***************************************************************************)
GetConversationStep(t, fault) ==
    /\ task[t].pc = "get_conv"
    /\ Scheduled(t)
    /\ LET err == StatementError(t, fault)
           found == IF err = NoErr
                    THEN GetByContacts(Contacts(t)[1], Contacts(t)[2]) ELSE {}
           seen == StoreCall(t, "GetByContacts", err)
       IN  IF AfterStore(err) = "return error"
           THEN Finish(t, "conversation failed", err, seen)
           ELSE IF found # {}
           THEN \E c \in found : Set(t, [pc |-> "create_msg", conv |-> c.id] @@ seen)
           ELSE Set(t, [pc |-> "create_conv"] @@ seen)
    /\ Overlap(t)
    /\ UNCHANGED <<conversations, messages, started, call>>

GetConversation(t) == GetConversationStep(t, FALSE)

CreateConversationStep(t, fault) ==
    /\ task[t].pc = "create_conv"
    /\ Scheduled(t)
    /\ LET id == Cardinality(conversations) + 1
           stmt == StatementError(t, fault)
           err == IF stmt # NoErr THEN stmt
                  ELSE IF ~ConversationUnique(Contacts(t)[1], Contacts(t)[2])
                  THEN UniqueViolation
                  ELSE NoErr
           seen == StoreCall(t, "conversations.Create", err)
       IN  IF err # NoErr
           THEN /\ UNCHANGED conversations
                /\ IF AfterStore(err) = "return error"
                   THEN Finish(t, "conversation failed", err,
                               [conflict |-> err = UniqueViolation] @@ seen)
                   ELSE Set(t, [pc |-> "create_msg", conv |-> 0] @@ seen)
           ELSE /\ conversations' = conversations \cup
                        {[id |-> id, customer_contact |-> Contacts(t)[1],
                          business_contact |-> Contacts(t)[2],
                          created_at |-> Now, updated_at |-> Now]}
                /\ Set(t, [pc |-> "create_msg", conv |-> id, convRows |-> 1] @@ seen)
    /\ UNCHANGED <<messages, started, overlap, call>>

CreateConversation(t) == CreateConversationStep(t, FALSE)

CreateMessageStep(t, fault) ==
    /\ task[t].pc = "create_msg"
    /\ Scheduled(t)
    /\ LET m == BuildMessage(task[t].req) @@
                [id |-> Cardinality(messages) + 1, conversation_id |-> task[t].conv,
                 created_at |-> Now]
           stmt == StatementError(t, fault)
           err == IF stmt # NoErr THEN stmt
                  ELSE IF ~MessageInsertable(m) THEN StoreError
                  ELSE NoErr
           seen == StoreCall(t, "messages.Create", err)
       IN  IF err # NoErr
           THEN /\ UNCHANGED messages
                /\ IF AfterStore(err) = "return error"
                   THEN Finish(t, "message failed", err, seen)
                   ELSE Finish(t, "ok", NoErr, seen)
           ELSE /\ messages' = messages \cup {m}
                /\ Finish(t, "ok", NoErr, [msgRows |-> 1] @@ seen)
    /\ UNCHANGED <<conversations, started, overlap, call>>

CreateMessage(t) == CreateMessageStep(t, FALSE)

(***************************************************************************)
(* The same statements, failing in the store.                              *)
(***************************************************************************)
LookupFails(t) == ~task[t].ctxDone /\ LookupStep(t, TRUE)
GetConversationFails(t) == ~task[t].ctxDone /\ GetConversationStep(t, TRUE)
CreateConversationFails(t) == ~task[t].ctxDone /\ CreateConversationStep(t, TRUE)
CreateMessageFails(t) == ~task[t].ctxDone /\ CreateMessageStep(t, TRUE)

\* the caller has the result; the task is free for the next request
Return(t) ==
    /\ task[t].pc = "done"
    /\ task' = [task EXCEPT ![t] = IdleTask]
    /\ UNCHANGED <<conversations, messages, started, overlap, call>>

Next ==
    \E t \in Tasks :
        \/ \E req \in Requests : Start(t, req)
        \/ ProviderCall(t)
        \/ Sent(t)
        \/ TimerFires(t)
        \/ Cancel(t)
        \/ Lookup(t)
        \/ GetConversation(t)
        \/ CreateConversation(t)
        \/ CreateMessage(t)
        \/ Return(t)

Spec == Init /\ [][Next]_vars

\* The operations when every call they make returns: the provider answers,
\* the timer of a backoff expires unless the context is cancelled before,
\* the store answers, and the task goes on running.  Whether a request is
\* submitted or a context cancelled is left to the callers.
Fairness ==
    \A t \in Tasks :
        /\ WF_vars(ProviderCall(t))
        /\ WF_vars(TimerFires(t))
        /\ WF_vars(Sent(t))
        /\ WF_vars(Lookup(t))
        /\ WF_vars(GetConversation(t))
        /\ WF_vars(CreateConversation(t))
        /\ WF_vars(CreateMessage(t))
        /\ WF_vars(Return(t))

\* the requests whose completion is followed: a send on each channel, a webhook
LiveRequests ==
    {Request("SendSMS", P12, P3, MessageTypeSMS, Hi, Empty, ValidTs),
     Request("SendEmail", Eax, Ebx, MessageTypeEmail, Hi, Empty, ValidTs),
     Request("HandleInboundSMS", P3, P12, MessageTypeSMS, Hi, Pid1, ValidTs)}

NextLive ==
    \E t \in Tasks :
        \/ \E req \in LiveRequests : Start(t, req)
        \/ ProviderCall(t)
        \/ Sent(t)
        \/ TimerFires(t)
        \/ Cancel(t)
        \/ Lookup(t)
        \/ GetConversation(t)
        \/ CreateConversation(t)
        \/ CreateMessage(t)
        \/ Return(t)

SpecLive == Init /\ [][NextLive]_vars /\ Fairness

\* the requests submitted to the service over a failing store: sends and
\* webhooks in both directions, a replayed identifier, a rejected request
FaultyRequests ==
    {Request("SendSMS", P12, P3, MessageTypeSMS, Hi, Empty, ValidTs),
     Request("SendSMS", P3, P12, MessageTypeMMS, Hi, Empty, ValidTs),
     Request("SendEmail", Eax, Ebx, MessageTypeEmail, Hi, Empty, ValidTs),
     Request("HandleInboundSMS", P3, P12, MessageTypeSMS, Hi, Pid1, ValidTs),
     Request("HandleInboundSMS", P12, P3, MessageTypeSMS, Hi, Pid1, ValidTs),
     Request("HandleInboundEmail", Ebx, Eax, MessageTypeEmail, Hi, Pid2, ValidTs),
     Request("SendSMS", Blank, P3, MessageTypeSMS, Hi, Empty, ValidTs)}

\* the operations over a store whose statements can fail
NextFaulty ==
    \E t \in Tasks :
        \/ \E req \in FaultyRequests : Start(t, req)
        \/ ProviderCall(t)
        \/ Sent(t)
        \/ TimerFires(t)
        \/ Cancel(t)
        \/ Lookup(t)
        \/ GetConversation(t)
        \/ CreateConversation(t)
        \/ CreateMessage(t)
        \/ LookupFails(t)
        \/ GetConversationFails(t)
        \/ CreateConversationFails(t)
        \/ CreateMessageFails(t)
        \/ Return(t)

SpecFaulty == Init /\ [][NextFaulty]_vars

(***************************************************************************)
(* The pure functions of the service, called on their own.  A result is a  *)
(* function of the arguments alone, so every call is made on a service     *)
(* that has made no other call.                                            *)
(***************************************************************************)
\* addresses with and without the formatting characters '-', ' ', '(', ')'
P1s2 == <<49, 32, 50>>          \* "1 2"
Pp1p2 == <<40, 49, 41, 50>>     \* "(1)2"
P2 == <<50>>                    \* "2"
Ps3 == <<32, 51>>               \* " 3"
Pp3p == <<40, 51, 41>>          \* "(3)"
Pd3 == <<45, 51>>               \* "-3"
Eadx == <<97, 45, 64, 120>>     \* "a-@x"

Addresses == {P12, P1d2, P1s2, Pp1p2, P2, P3, Ps3, Pp3p, Pd3, Eax, Ebx, Eadx}

CallNormalizeContacts(a, b) ==
    /\ call = NoCall
    /\ call' = [fn |-> "normalizeContacts", args |-> <<a, b>>,
                out |-> normalizeContacts(a, b)]
    /\ UNCHANGED <<conversations, messages, task, started, overlap>>

\* the errors a delay is computed for: with and without a retry-after hint,
\* on 429 and on other codes, hints below, at and above MaxDelay
DelayErrors ==
    {ProviderError(500, 0), ProviderError(503, 30), ProviderError(429, 0),
     ProviderError(429, 1), ProviderError(429, 30), ProviderError(429, 59),
     ProviderError(429, 60), ProviderError(429, 61), ProviderError(429, -5),
     OtherError}

\* the delay computation of retryWithBackoff after the failed attempt
CallBackoffDelay(attempt, err) ==
    /\ call = NoCall
    /\ call' = [fn |-> "BackoffDelay", args |-> <<attempt, err>>,
                out |-> BackoffDelay(attempt, err)]
    /\ UNCHANGED <<conversations, messages, task, started, overlap>>

\* time.Time{}: 0001-01-01T00:00:00Z, which IsZero reports; its place on the
\* axis of seconds since 2000 is far below every other instant of the model
ZeroSec == -2000000000

\* timestamps around every limit of validateTimestamp, in UTC and in another
\* location, and the zero time
Timestamps ==
    {Timestamp(zone, FALSE, sec) :
        zone \in {"UTC", "Local"},
        sec \in {NowSec, NowSec + FiveMinutes - 1, NowSec + FiveMinutes,
                 NowSec + FiveMinutes + 1, NowSec - TenYears - 1, NowSec - TenYears,
                 NowSec - TenYears + 1, Year2000 - 1, Year2000, Year2000 + 1}}
    \cup {Timestamp(zone, TRUE, ZeroSec) : zone \in {"UTC", "Local"}}

CallValidateTimestamp(ts) ==
    /\ call = NoCall
    /\ call' = [fn |-> "validateTimestamp", args |-> <<ts>>,
                out |-> validateTimestamp(ts, NowSec)]
    /\ UNCHANGED <<conversations, messages, task, started, overlap>>

\* requests and webhooks with every combination of a blank from, to, body
\* and identifier, a wrong type and a rejected timestamp
ValidatorInputs ==
    {Request(kind, from, to, type, body, pid, ts) :
        kind \in {"SendSMS", "SendEmail", "HandleInboundSMS", "HandleInboundEmail"},
        from \in {P3, Blank}, to \in {P12, Empty}, type \in {MessageTypeSMS, "fax"},
        body \in {Hi, Blank}, pid \in {Pid1, Empty},
        ts \in {ValidTs, Timestamp("Local", FALSE, NowSec)}}

CallValidate(req) ==
    /\ call = NoCall
    /\ call' = [fn |-> "Validate", args |-> <<req>>, out |-> Validate(req, NowSec)]
    /\ UNCHANGED <<conversations, messages, task, started, overlap>>

(***************************************************************************)
(* GetConversations: the listing of conversations, over a store given as   *)
(* the rows of its two tables.                                             *)
(***************************************************************************)
DefaultLimit == 50

\* Go's integer division: the quotient is truncated toward zero
GoDiv(a, b) ==
    LET abs(x) == IF x < 0 THEN -x ELSE x
        q == abs(a) \div abs(b)
    IN  IF (a < 0) = (b < 0) THEN q ELSE -q

\* a listing that falls back to ten rows a page
ApplyDefaultsTen(query) ==
    [query EXCEPT !.limit = IF @ <= 0 THEN 10 ELSE @,
                  !.offset = IF @ < 0 THEN 0 ELSE @,
                  !.sortBy = IF @ = "" THEN "updated_at" ELSE @,
                  !.sortOrder = IF @ = "" THEN "desc" ELSE @]

\* the defaults GetConversations writes into the query
ApplyDefaults(query) ==
    [query EXCEPT !.limit = IF @ <= 0 THEN DefaultLimit ELSE @,
                  !.offset = IF @ < 0 THEN 0 ELSE @,
                  !.sortBy = IF @ = "" THEN "updated_at" ELSE @,
                  !.sortOrder = IF @ = "" THEN "desc" ELSE @]

\* a page number that counts from zero
PageFromZero(offset, limit) == GoDiv(offset, limit)

Page(offset, limit) == GoDiv(offset, limit) + 1

\* column ILIKE '%' || pattern || '%', for patterns without % and _
ILike(s, pattern) ==
    LET lower(x) == [i \in 1..Len(x) |-> IF x[i] \in 65..90 THEN x[i] + 32 ELSE x[i]]
    IN  \E i \in 0..(Len(s) - Len(pattern)) :
            SubSeq(lower(s), i + 1, i + Len(pattern)) = lower(pattern)

\* the WHERE clause conversationRepository.List builds
Matches(c, q) ==
    /\ q.from.zero \/ c.updated_at >= q.from.sec
    /\ q.to.zero \/ c.updated_at <= q.to.sec
    /\ q.search = Empty
         \/ ILike(c.customer_contact, q.search) \/ ILike(c.business_contact, q.search)
    /\ q.businessEmail = Empty \/ ILike(c.business_contact, q.businessEmail)
    /\ q.businessPhone = Empty \/ ILike(c.business_contact, q.businessPhone)

ValidSortFields == {"id", "created_at", "updated_at", "customer_contact", "business_contact"}

\* ORDER BY: the column and the direction
SortColumn(q) ==
    IF q.sortBy # "" /\ q.sortBy \in ValidSortFields THEN q.sortBy ELSE "updated_at"

ColumnLess(a, b, column) ==
    CASE column = "id" -> a.id < b.id
      [] column = "created_at" -> a.created_at < b.created_at
      [] column = "updated_at" -> a.updated_at < b.updated_at
      [] column = "customer_contact" -> StrLess(a.customer_contact, b.customer_contact)
      [] column = "business_contact" -> StrLess(a.business_contact, b.business_contact)

SortsBefore(a, b, q) ==
    IF q.sortOrder = "asc" THEN ColumnLess(a, b, SortColumn(q))
    ELSE ColumnLess(b, a, SortColumn(q))

\* the orders of the rows S in which no row comes after one it sorts before:
\* rows with equal keys come in any order
Orders(S, Before(_, _)) ==
    {f \in [1..Cardinality(S) -> S] :
        /\ \A i, j \in DOMAIN f : i # j => f[i] # f[j]
        /\ \A i, j \in DOMAIN f : i < j => ~Before(f[j], f[i])}

\* the orders in which the store can return the rows that match q
ListOrders(store, q) ==
    Orders({c \in store.conversations : Matches(c, q)},
           LAMBDA a, b : SortsBefore(a, b, q))

\* conversationRepository.List: the count of the matching rows and, of these
\* rows in the order `rows`, those of LIMIT q.limit OFFSET q.offset; the
\* store refuses a negative LIMIT or OFFSET
List(q, rows, fault) ==
    IF fault \/ q.limit < 0 \/ q.offset < 0
    THEN [err |-> TRUE, conversations |-> << >>, total |-> 0]
    ELSE LET last == IF q.offset + q.limit < Len(rows) THEN q.offset + q.limit
                     ELSE Len(rows)
         IN  [err |-> FALSE, conversations |-> SubSeq(rows, q.offset + 1, last),
              total |-> Len(rows)]

\* the orders in which the store can return messages ORDER BY created_at ASC
MessageOrders(store) ==
    Orders(store.messages, LAMBDA a, b : a.created_at < b.created_at)

\* a fetch that returns the messages of every conversation
GetByConversationIDAll(ordered, conversationID) == ordered

\* messageRepository.GetByConversationID, `ordered` being the messages of the
\* store in creation order
GetByConversationID(ordered, conversationID) ==
    SelectSeq(ordered, LAMBDA m : m.conversation_id = conversationID)

NoResponse ==
    [nil |-> TRUE, conversations |-> << >>, total |-> 0, page |-> 0, perPage |-> 0,
     hasMore |-> FALSE]

\* a store that answers every statement
NoFault == [at |-> "none", conv |-> 0]

\* GetConversations(ctx, query): what it returns, the query it hands to List
\* and the conversations whose messages it fetches.  `fault` makes List, or
\* the fetch of the messages of one conversation, fail.
GetConversations(query, rows, ordered, fault) ==
    LET q == ApplyDefaults(query)
        listed == List(q, rows, fault.at = "List")
        returned == listed.conversations
        ids == [i \in 1..Len(returned) |-> returned[i].id]
        failed == {i \in 1..Len(returned) :
                      fault.at = "messages" /\ returned[i].id = fault.conv}
    IN  IF listed.err
        THEN [err |-> "failed to get conversations", response |-> NoResponse,
              query |-> q, fetched |-> << >>]
        ELSE IF q.includeMessages /\ failed # {}
        THEN [err |-> "failed to get messages for conversation",
              response |-> NoResponse, query |-> q,
              fetched |-> SubSeq(ids, 1, CHOOSE i \in failed : TRUE)]
        ELSE [err |-> "",
              response |->
                [nil |-> FALSE,
                 conversations |->
                    [i \in 1..Len(returned) |->
                        [id |-> returned[i].id,
                         messages |-> IF q.includeMessages
                                      THEN GetByConversationID(ordered, returned[i].id)
                                      ELSE << >>]],
                 total |-> listed.total,
                 page |-> Page(q.offset, q.limit),
                 perPage |-> q.limit,
                 hasMore |-> (q.offset + q.limit) < listed.total],
              query |-> q,
              fetched |-> IF q.includeMessages THEN ids ELSE << >>]

ConversationRow(id, customer, business, created, updated) ==
    [id |-> id, customer_contact |-> customer, business_contact |-> business,
     created_at |-> created, updated_at |-> updated]
MessageRow(id, conversation, created) ==
    [id |-> id, conversation_id |-> conversation, created_at |-> created]

\* stores: empty; two conversations, the first with three messages of which
\* the one inserted second was created first and two were created in the
\* same instant; three conversations, two of them updated in the same instant
QueryStores ==
    {[conversations |-> {}, messages |-> {}],
     [conversations |-> {ConversationRow(1, P12, P3, 10, 30),
                         ConversationRow(2, Eax, Ebx, 20, 20)},
      messages |-> {MessageRow(1, 1, 12), MessageRow(2, 2, 20), MessageRow(3, 1, 11),
                    MessageRow(4, 1, 12)}],
     [conversations |-> {ConversationRow(1, P12, P3, 10, 30),
                         ConversationRow(2, Eax, Ebx, 20, 20),
                         ConversationRow(3, P1d2, P3, 30, 30)},
      messages |-> {MessageRow(1, 3, 30)}]}

NoTime == Timestamp("UTC", TRUE, ZeroSec)

\* the filters of a query: none, or one of the five
QueryFilters ==
    LET none == [search |-> Empty, businessEmail |-> Empty, businessPhone |-> Empty,
                 from |-> NoTime, to |-> NoTime]
    IN  {none,
         [none EXCEPT !.search = P3],
         [none EXCEPT !.businessEmail = Ebx],
         [none EXCEPT !.businessPhone = P3],
         [none EXCEPT !.from = Timestamp("UTC", FALSE, 25)],
         [none EXCEPT !.to = Timestamp("UTC", FALSE, 25)]}

Queries ==
    {f @@ [limit |-> limit, offset |-> offset, sortBy |-> sortBy,
           sortOrder |-> sortOrder, includeMessages |-> includeMessages] :
        f \in QueryFilters, limit \in {-1, 0, 1, 2}, offset \in {-1, 0, 1, 2},
        sortBy \in {"", "id", "name"}, sortOrder \in {"", "asc"},
        includeMessages \in BOOLEAN}

QueryFaults ==
    {NoFault, [at |-> "List", conv |-> 0]}
    \cup {[at |-> "messages", conv |-> id] : id \in 1..2}

(***************************************************************************)
(* The statements of the query service are SELECTs.                        *)
(***************************************************************************)
\* a statement that touches the conversations it reads
AfterSelectTouching(store, name) ==
    [store EXCEPT !.conversations =
        {[c EXCEPT !.updated_at = @ + 1] : c \in store.conversations}]

\* the rows of the store after the SELECT of repository method `name`
AfterSelect(store, name) == store

\* the rows of the store after the repository calls `calls`, in this order
RECURSIVE AfterCalls(_, _)
AfterCalls(store, calls) ==
    IF calls = << >> THEN store
    ELSE AfterCalls(AfterSelect(store, Head(calls)), Tail(calls))

\* the repository calls GetConversations(query, rows, ordered, fault) makes
GetConversationsCalls(query, rows, ordered, fault) ==
    <<"List">> \o
    [i \in 1..Len(GetConversations(query, rows, ordered, fault).fetched) |->
        "GetByConversationID"]

\* a lookup that finds a conversation whatever the id
GetByIDAny(store, id) == store.conversations

\* conversationRepository.GetByID: the rows with this id (none: nil)
GetByID(store, id) == {c \in store.conversations : c.id = id}

\* GetConversationMessages(ctx, conversationID): what it returns and the
\* repository calls it makes
GetConversationMessages(store, conversationID, ordered, fault) ==
    IF fault.at = "GetByID"
    THEN [err |-> "failed to get conversation", messages |-> << >>,
          calls |-> <<"GetByID">>]
    ELSE IF GetByID(store, conversationID) = {}
    THEN [err |-> "conversation not found", messages |-> << >>,
          calls |-> <<"GetByID">>]
    ELSE IF fault.at = "messages"
    THEN [err |-> "failed to get messages for conversation", messages |-> << >>,
          calls |-> <<"GetByID", "GetByConversationID">>]
    ELSE [err |-> "", messages |-> GetByConversationID(ordered, conversationID),
          calls |-> <<"GetByID", "GetByConversationID">>]

CallGetConversations(store, query, fault) ==
    /\ call = NoCall
    /\ \E rows \in ListOrders(store, ApplyDefaults(query)),
          ordered \in MessageOrders(store) :
            call' = [fn |-> "GetConversations", args |-> <<store, query, fault>>,
                     out |-> GetConversations(query, rows, ordered, fault) @@
                             [calls |-> GetConversationsCalls(query, rows, ordered, fault),
                              store |-> AfterCalls(store,
                                  GetConversationsCalls(query, rows, ordered, fault))]]
    /\ UNCHANGED <<conversations, messages, task, started, overlap>>

\* the identifiers asked for: of stored conversations and of none
ConversationIDs == 0..4

MessagesFaults ==
    {NoFault, [at |-> "GetByID", conv |-> 0], [at |-> "messages", conv |-> 0]}

CallGetConversationMessages(store, conversationID, fault) ==
    /\ call = NoCall
    /\ \E ordered \in MessageOrders(store) :
          LET out == GetConversationMessages(store, conversationID, ordered, fault)
          IN  call' = [fn |-> "GetConversationMessages",
                       args |-> <<store, conversationID, fault>>,
                       out |-> out @@ [store |-> AfterCalls(store, out.calls)]]
    /\ UNCHANGED <<conversations, messages, task, started, overlap>>

(***************************************************************************)
(* The delay of retryWithBackoff in the arithmetic of time.Duration: an    *)
(* int64 of nanoseconds, here the eight bytes of its two's complement,     *)
(* lowest first.  Products and shifts wrap modulo 2^64.                    *)
(***************************************************************************)
MaxShift == 66      \* the attempt indexes go up to here, beyond the 64 bits

\* the int64 of a number below 2^31
Int64(n) == [i \in 1..8 |-> IF i <= 4 THEN (n \div 256 ^ (i - 1)) % 256 ELSE 0]

\* a * b modulo 2^64
Mul64(a, b) ==
    LET column(k) ==
            LET RECURSIVE sum(_)
                sum(i) == IF i = 0 THEN 0 ELSE a[i] * b[k - i + 1] + sum(i - 1)
            IN  sum(k)
        RECURSIVE carry(_)
        carry(k) == IF k = 1 THEN 0 ELSE (column(k - 1) + carry(k - 1)) \div 256
    IN  [k \in 1..8 |-> (column(k) + carry(k)) % 256]

\* a << n: whole bytes first, then bits; a shift by 64 or more gives 0
Shl64(a, n) ==
    LET bytes == n \div 8
        bits == 2 ^ (n % 8)
        byte(k) == IF k - bytes >= 1 THEN a[k - bytes] ELSE 0
    IN  [k \in 1..8 |-> ((byte(k) * bits) % 256) + ((byte(k - 1) * bits) \div 256)]

Negative64(a) == a[8] >= 128

\* a < b, signed
Less64(a, b) ==
    IF Negative64(a) # Negative64(b) THEN Negative64(a)
    ELSE \E k \in 1..8 : a[k] < b[k] /\ \A j \in (k + 1)..8 : a[j] = b[j]

\* time.Second and time.Minute, the BaseDelay and MaxDelay of DefaultRetryConfig
BaseDelay64 == Int64(1000000000)
MaxDelay64 == Mul64(Int64(60), Int64(1000000000))

\* delay := BaseDelay * time.Duration(1<<attempt); if delay > MaxDelay { delay = MaxDelay }
BackoffDelay64(attempt) ==
    LET delay == Mul64(BaseDelay64, Shl64(Int64(1), attempt))
    IN  IF Less64(MaxDelay64, delay) THEN MaxDelay64 ELSE delay

CallBackoffDelay64(attempt) ==
    /\ call = NoCall
    /\ call' = [fn |-> "BackoffDelay64", args |-> <<attempt>>,
                out |-> BackoffDelay64(attempt)]
    /\ UNCHANGED <<conversations, messages, task, started, overlap>>

(***************************************************************************)
(* The HTTP handlers: a request without a timestamp is given the current   *)
(* time before the service is called.                                      *)
(***************************************************************************)
\* time.Now().UTC() in the handlers of the sends, time.Now() in the handlers
\* of the webhooks: the location of time.Now() is time.Local, which is not
\* the location time.UTC even on a host whose zone is UTC
DefaultTimestamp(kind, ts) ==
    IF ~ts.zero THEN ts
    ELSE IF kind \in {"SendSMS", "SendEmail"} THEN Timestamp("UTC", FALSE, NowSec)
    ELSE Timestamp("Local", FALSE, NowSec)

\* the request the handler passes to the service, and what the validator of
\* the service answers
Handler(req) ==
    LET passed == [req EXCEPT !.ts = DefaultTimestamp(req.kind, req.ts)]
    IN  [req |-> passed, err |-> Validate(passed, NowSec)]

\* requests that are valid but for their timestamp: absent, in UTC, in
\* another location
HandlerInputs ==
    {[r EXCEPT !.ts = ts] :
        r \in {Request("SendSMS", P12, P3, MessageTypeSMS, Hi, Empty, ValidTs),
               Request("SendEmail", Eax, Ebx, MessageTypeEmail, Hi, Empty, ValidTs),
               Request("HandleInboundSMS", P3, P12, MessageTypeSMS, Hi, Pid1, ValidTs),
               Request("HandleInboundEmail", Ebx, Eax, MessageTypeEmail, Hi, Pid2, ValidTs)},
        ts \in {Timestamp("UTC", TRUE, ZeroSec), ValidTs,
                Timestamp("Local", FALSE, NowSec)}}

CallHandler(req) ==
    /\ call = NoCall
    /\ call' = [fn |-> "Handler", args |-> <<req>>, out |-> Handler(req)]
    /\ UNCHANGED <<conversations, messages, task, started, overlap>>

NextPure ==
    \/ \E a, b \in Addresses : CallNormalizeContacts(a, b)
    \/ \E ts \in Timestamps : CallValidateTimestamp(ts)
    \/ \E req \in ValidatorInputs : CallValidate(req)
    \/ \E req \in HandlerInputs : CallHandler(req)
    \/ \E attempt \in 0..MaxShift : CallBackoffDelay64(attempt)
    \/ \E store \in QueryStores, query \in Queries, fault \in QueryFaults :
            CallGetConversations(store, query, fault)
    \/ \E store \in QueryStores, conversationID \in ConversationIDs,
          fault \in MessagesFaults :
            CallGetConversationMessages(store, conversationID, fault)
    \/ \E attempt \in 0..MaxAttempt, err \in DelayErrors : CallBackoffDelay(attempt, err)

SpecPure == Init /\ [][NextPure]_vars

TypeOK ==
    /\ started \in 0..MaxOps
    /\ overlap \in BOOLEAN
    /\ \A t \in Tasks : task[t].pc \in
         {"idle", "provider", "backoff", "sent", "lookup", "get_conv", "create_conv",
          "create_msg", "done"}

(***************************************************************************)
(* Properties                                                              *)
(***************************************************************************)
Done(t) == task[t].pc = "done"

\* no operation is between its first store call and its return
Quiet == \A t \in Tasks : ~MidStore(t) /\ ~Done(t)

\* an address without the formatting characters '-', ' ', '(' and ')'
StripFormatting(s) == SelectSeq(s, LAMBDA x : x \notin {45, 32, 40, 41})
Parties(m) == {StripFormatting(m.from), StripFormatting(m.to)}

WithProviderID(pid) == {m \in messages : m.provider_message_id = pid}
ProviderIDs == {m.provider_message_id : m \in messages} \ {Null}

\* C1: after operations run one after the other that all succeeded among the
\* same two addresses, in either direction and in any formatting variant of
\* the addresses, the store holds exactly one conversation, and every message
\* is attached to it.
C1_ConversationUniqueness ==
    (/\ ~overlap
     /\ Quiet
     /\ messages # {}
     /\ \A m1, m2 \in messages : Parties(m1) = Parties(m2))
    => \E c \in conversations :
          /\ conversations = {c}
          /\ \A m \in messages : m.conversation_id = c.id

Inbound(t) == task[t].req.kind \in {"HandleInboundSMS", "HandleInboundEmail"}

\* C2: when the inbound handlers are called one after the other, every call
\* that returns success leaves exactly one persisted message with the
\* webhook's provider message identifier: a replay of an identifier adds no row.
C2_IdempotentIngestion ==
    ~overlap =>
        /\ \A pid \in ProviderIDs : Cardinality(WithProviderID(pid)) = 1
        /\ \A t \in Tasks :
              (Done(t) /\ Inbound(t) /\ task[t].result = "ok")
              => Cardinality(WithProviderID(task[t].req.pid)) = 1

\* a replay has returned: the identifier was stored already, the call
\* succeeded and added nothing
C2_Witness ==
    /\ ~overlap
    /\ \E t \in Tasks :
          /\ Done(t) /\ Inbound(t) /\ task[t].result = "ok"
          /\ task[t].msgRows = 0 /\ task[t].convRows = 0
          /\ Cardinality(WithProviderID(task[t].req.pid)) = 1

\* C3: in every reachable state, under any interleaving of inbound webhook
\* tasks, at most one stored message carries a given provider message
\* identifier.
C3_ProviderIDUnique ==
    \A m1, m2 \in messages :
        (m1.provider_message_id # Null
         /\ m1.provider_message_id = m2.provider_message_id) => m1 = m2

\* C4: the store never holds two conversations for the same pair of addresses.
C4_OneConversationPerPair ==
    \A c1, c2 \in conversations :
        {c1.customer_contact, c1.business_contact}
          = {c2.customer_contact, c2.business_contact} => c1 = c2

\* C5: a task whose conversation insert met the row another task had inserted
\* after its lookup missed completes successfully, its message persisted.
C5_RaceLoserSucceeds ==
    \A t \in Tasks :
        (Done(t) /\ task[t].conflict)
        => (task[t].result = "ok" /\ task[t].msgRows = 1)

\* the codes the retry engine is said to retry
RetryableCodes == {429, 500, 502, 503, 504}
RetryableFailure(err) == err.class = "ProviderError" /\ err.code \in RetryableCodes

\* C6: when every provider attempt of a send failed with a retryable code and
\* the caller did not cancel, the retry engine has made exactly MaxRetries + 1
\* attempts and the send returns the error of the last attempt.
C6_RetryExhaustion ==
    \A t \in Tasks :
        (Done(t) /\ task[t].calls >= 1 /\ task[t].fails = task[t].calls
         /\ ~task[t].ctxDone)
        => /\ task[t].calls = MaxRetries + 1
           /\ task[t].result = "provider failed"
           /\ task[t].err = task[t].last
           /\ RetryableFailure(task[t].err)

C6_Witness ==
    \E t \in Tasks :
        /\ Done(t) /\ ~task[t].ctxDone
        /\ task[t].fails = MaxRetries + 1 /\ task[t].calls = MaxRetries + 1
        /\ task[t].err = ProviderError(500, 0)

C8_NonRetryableShortCircuit ==
    \A t \in Tasks :
        /\ task[t].pc = "backoff" => RetryableFailure(task[t].last)
        /\ (Done(t) /\ task[t].calls >= 1 /\ task[t].last # NoErr
            /\ ~RetryableFailure(task[t].last))
           => /\ task[t].result = "provider failed"
              /\ task[t].err = task[t].last
              /\ task[t].calls = task[t].fails + 1
              /\ task[t].delays = task[t].fails
        /\ (Done(t) /\ task[t].calls >= 1 /\ RetryableFailure(task[t].last)
            /\ ~task[t].ctxDone)
           => task[t].calls = MaxRetries + 1

C8_Witness ==
    \E t \in Tasks :
        /\ Done(t) /\ task[t].calls = 1 /\ task[t].delays = 0
        /\ task[t].err = ProviderError(400, 0)

\* C9: a send whose context is cancelled while the retry engine waits between
\* two attempts returns the cancellation error at once: no provider attempt
\* follows the wait, and the send persists nothing.
C9_CancelDuringBackoff ==
    \A t \in Tasks :
        task[t].cancelPc = "backoff"
        => /\ Done(t)
           /\ task[t].result = "provider failed"
           /\ task[t].err = CtxErr
           /\ task[t].calls = task[t].delays
           /\ task[t].msgRows = 0 /\ task[t].convRows = 0

C9_Witness ==
    \E t \in Tasks :
        /\ Done(t) /\ task[t].cancelPc = "backoff"
        /\ task[t].calls = 2 /\ task[t].err = CtxErr

\* C10: when the provider phase of SendSMS or SendEmail ends in an error (a
\* non-retryable error, the retries exhausted), the send returns that error
\* and has added no conversation and no message.
C10_ProviderFailureNoPersist ==
    \A t \in Tasks :
        task[t].retryErr # NoErr
        => /\ Done(t)
           /\ task[t].result = "provider failed"
           /\ task[t].err = task[t].retryErr
           /\ task[t].msgRows = 0 /\ task[t].convRows = 0

C10_Witness ==
    \E t \in Tasks :
        /\ Done(t) /\ task[t].req.kind = "SendEmail"
        /\ task[t].retryErr = ProviderError(503, 0)
        /\ task[t].calls = MaxRetries + 1

\* C11: whenever SendSMS, SendEmail, HandleInboundSMS or HandleInboundEmail
\* returns an error - also when the message insert fails after GetOrCreate
\* has succeeded - that call has added neither a conversation row nor a
\* message row.
C11_ZeroRowsOnFailure ==
    \A t \in Tasks :
        (Done(t) /\ task[t].result # "ok")
        => (task[t].convRows = 0 /\ task[t].msgRows = 0)

\* C12 as the specification states it: every call that returns success has
\* added exactly one message row and at most one conversation row.
C12_SuccessAddsOneMessage ==
    \A t \in Tasks :
        (Done(t) /\ task[t].result = "ok")
        => (task[t].msgRows = 1 /\ task[t].convRows <= 1)

\* C12, amended: every call that returns success has added at most one
\* conversation row and exactly one message row, unless it is an inbound call
\* whose idempotency lookup found the identifier: that call has added no row.
C12_SuccessSideEffects ==
    \A t \in Tasks :
        (Done(t) /\ task[t].result = "ok")
        => /\ task[t].convRows <= 1
           /\ task[t].hit => (task[t].msgRows = 0 /\ task[t].convRows = 0)
           /\ ~task[t].hit => task[t].msgRows = 1
           /\ Cardinality(messages) >= task[t].msgRows
           /\ Cardinality(conversations) >= task[t].convRows

\* a replay has returned success after the first delivery stored its row
C12_Witness ==
    \E u \in Tasks :
        /\ Done(u) /\ task[u].result = "ok" /\ task[u].hit
        /\ task[u].msgRows = 0 /\ task[u].storeCalls = 1
        /\ Cardinality(messages) = 1 /\ Cardinality(conversations) = 1

\* C13: a failure returned by a store call of an operation (the provider
\* message id lookup, GetByContacts or Create of GetOrCreate, the message
\* Create) is never swallowed: the operation returns an error, at once.
C13_StoreFailureSurfaced ==
    \A t \in Tasks :
        task[t].storeFailed # ""
        => (Done(t) /\ task[t].result # "ok" /\ task[t].err # NoErr)

\* C14: a send whose provider call succeeded and whose persistence then fails
\* (GetByContacts, the conversation insert or the message insert) returns
\* that error to the caller at once: no store call follows the failed one,
\* no message is stored, and the provider-side send stays done.
C14_SentButNotRecorded ==
    \A t \in Tasks :
        (Outbound(task[t].req) /\ task[t].storeFailed # "")
        => /\ Done(t)
           /\ task[t].result \in {"conversation failed", "message failed"}
           /\ task[t].err \in {StoreError, UniqueViolation, CtxErr}
           /\ task[t].delivered
           /\ task[t].retryErr = NoErr
           /\ task[t].msgRows = 0
           /\ task[t].storeCalls <= 3

\* the message insert of a delivered send failed in the store
C14_Witness ==
    \E t \in Tasks :
        /\ Done(t) /\ task[t].req.kind = "SendSMS" /\ task[t].delivered
        /\ task[t].storeFailed = "messages.Create" /\ task[t].err = StoreError
        /\ task[t].result = "message failed" /\ ~task[t].ctxDone

\* C15: SendSMS and SendEmail make no store call before the provider phase,
\* with all its attempts and delays, has ended in success: a send that is in
\* an attempt or in a delay has not touched the store, and a send that has
\* touched the store has a provider call that succeeded and no engine error.
C15_ProviderBeforeStore ==
    \A t \in Tasks :
        task[t].req.kind \in {"SendSMS", "SendEmail"}
        => /\ task[t].pc \in {"provider", "backoff", "sent"}
              => (task[t].storeCalls = 0 /\ task[t].convRows = 0 /\ task[t].msgRows = 0)
           /\ task[t].storeCalls > 0
              => (task[t].delivered /\ task[t].retryErr = NoErr
                  /\ task[t].pc \notin {"provider", "backoff", "sent"})
           /\ task[t].pc \in {"get_conv", "create_conv", "create_msg"}
              => task[t].delivered

\* a send between its store calls, and a send that has left its provider
\* phase and has its first store call ahead
C15_Witness ==
    \E t, u \in Tasks :
        /\ task[t].req.kind = "SendEmail" /\ task[t].pc = "create_conv"
        /\ task[t].storeCalls = 1 /\ task[t].delivered
        /\ task[u].req.kind = "SendSMS" /\ task[u].pc = "get_conv"
        /\ task[u].storeCalls = 0

\* C16: an operation whose request or webhook fails validation returns an
\* error and has done nothing else: no provider call, no store call, no row.
C16_InvalidRequestNoEffect ==
    \A t \in Tasks :
        task[t].req \in InvalidRequests
        => /\ Done(t)
           /\ task[t].result = "invalid request"
           /\ task[t].err # NoErr
           /\ task[t].calls = 0 /\ ~task[t].delivered
           /\ task[t].storeCalls = 0
           /\ task[t].convRows = 0 /\ task[t].msgRows = 0
           /\ conversations = {} /\ messages = {}

\* a webhook with a blank provider identifier has been rejected
C16_Witness ==
    \E t \in Tasks :
        /\ Done(t) /\ task[t].result = "invalid request"
        /\ task[t].req.kind = "HandleInboundSMS" /\ IsBlank(task[t].req.pid)
        /\ task[t].storeCalls = 0

\* C17: normalisation is symmetric: normalizeContacts(a, b) and
\* normalizeContacts(b, a) are the same ordered pair, for all addresses a, b,
\* those whose stripped forms are equal included.
C17_NormalizationSymmetry ==
    call.fn = "normalizeContacts"
    => call.out = normalizeContacts(call.args[2], call.args[1])

\* C18: the normalizer of the orchestrator returns its two arguments, and it
\* orders phone-like addresses by the lexicographic order of their forms
\* without the characters '-', ' ', '(' and ')'.
C18_OrdersByStrippedForm ==
    call.fn = "normalizeContacts"
    => LET a == call.args[1]
           b == call.args[2]
       IN  /\ call.out \in {<<a, b>>, <<b, a>>}
           /\ ~(Contains(StripFormatting(a), 64) /\ Contains(StripFormatting(b), 64))
              => ~StrLess(StripFormatting(call.out[2]), StripFormatting(call.out[1]))

\* the operation is in createMessageRecord
InCreateMessageRecord(t) == task[t].pc \in {"get_conv", "create_conv", "create_msg"}

\* C19: messages between the same two address strings go to one conversation
\* whatever their direction and channel: GetOrCreate is called with the same
\* ordered pair for both directions, and when the operations run one after
\* the other their messages carry the same conversation.
C19_GroupedWhateverDirection ==
    /\ \A t, u \in Tasks :
          (/\ InCreateMessageRecord(t) /\ InCreateMessageRecord(u)
           /\ {task[t].req.from, task[t].req.to} = {task[u].req.from, task[u].req.to})
          => Contacts(t) = Contacts(u)
    /\ (~overlap /\ Quiet)
       => \A m1, m2 \in messages :
             {m1.from, m1.to} = {m2.from, m2.to}
             => m1.conversation_id = m2.conversation_id

\* C20: an inbound handler whose idempotency lookup finds a stored message
\* with the webhook's identifier returns success and does nothing more: the
\* lookup is its only store call, and it adds no conversation and no message.
C20_ReplayReturnsSuccess ==
    \A t \in Tasks :
        task[t].hit
        => /\ Done(t)
           /\ task[t].result = "ok" /\ task[t].err = NoErr
           /\ task[t].storeCalls = 1 /\ task[t].storeFailed = ""
           /\ task[t].convRows = 0 /\ task[t].msgRows = 0
           /\ task[t].conv = 0

\* the replay of an inbound email has returned
C20_Witness ==
    \E t \in Tasks :
        /\ Done(t) /\ task[t].hit /\ task[t].req.kind = "HandleInboundEmail"
        /\ WithProviderID(task[t].req.pid) # {}
        /\ Cardinality(conversations) = 1

\* the smaller of two durations
Min(a, b) == IF a < b THEN a ELSE b

\* C21: without a retry-after hint, the wait after the failed attempt with
\* 0-based index i is min(BaseDelay * 2^i, MaxDelay).
C21_ExponentialDelay ==
    (call.fn = "BackoffDelay" /\ call.args[2].retryAfter <= 0)
    => call.out = Min(BaseDelay * 2^(call.args[1]), MaxDelay)

\* the first attempt index at which the cap applies
C21_Witness ==
    /\ call.fn = "BackoffDelay" /\ call.args[2] = ProviderError(500, 0)
    /\ call.args[1] = 6 /\ call.out = MaxDelay
    /\ BaseDelay * 2^6 > MaxDelay

\* C22: when the error of the failed attempt is a ProviderError with code 429
\* and a positive retry-after hint, the wait is min(hint seconds, MaxDelay)
\* whatever the exponential value; a hint on another code is ignored and the
\* wait is the exponential delay.
C22_RetryAfterOverride ==
    call.fn = "BackoffDelay"
    => LET i == call.args[1]
           err == call.args[2]
       IN  IF err.class = "ProviderError" /\ err.code = 429 /\ err.retryAfter > 0
           THEN call.out = Min(err.retryAfter * Second, MaxDelay)
           ELSE call.out = Min(BaseDelay * 2^i, MaxDelay)

\* a hint of 30 s replaces the capped exponential delay of attempt 6
C22_Witness ==
    /\ call.fn = "BackoffDelay" /\ call.args[2] = ProviderError(429, 30)
    /\ call.out = 30 * Second
    /\ call.args[1] = 6

\* C23: the message a successful outbound send has stored has status
\* "pending" and no provider message id; the message an accepted inbound
\* webhook has stored has status "delivered" and the webhook's identifier as
\* its provider message id.
C23_StoredStatusAndProviderID ==
    /\ \A m \in messages :
          \/ m.status = "pending" /\ m.provider_message_id = Null
          \/ m.status = "delivered" /\ m.provider_message_id # Null
    /\ \A t \in Tasks :
          (Done(t) /\ task[t].result = "ok" /\ task[t].msgRows = 1)
          => \E m \in messages :
                /\ m.from = task[t].req.from /\ m.to = task[t].req.to
                /\ m.type = IF task[t].req.kind \in {"SendEmail", "HandleInboundEmail"}
                            THEN MessageTypeEmail ELSE task[t].req.type
                /\ m.conversation_id = task[t].conv
                /\ IF task[t].req.kind \in {"SendSMS", "SendEmail"}
                   THEN m.status = "pending" /\ m.provider_message_id = Null
                   ELSE m.status = "delivered"
                        /\ m.provider_message_id = task[t].req.pid

\* an outbound and an inbound message are stored, the inbound one just now
C23_Witness ==
    /\ \E m \in messages : m.status = "pending"
    /\ \E t \in Tasks :
          /\ Done(t) /\ task[t].result = "ok" /\ task[t].msgRows = 1
          /\ task[t].req.kind = "HandleInboundEmail"
          /\ \E m \in messages : m.provider_message_id = task[t].req.pid

\* C24: validateTimestamp accepts a timestamp iff its zone is UTC, it is not
\* the zero time, it is at most 5 minutes after now, at most 10 years before
\* now and not before 2000-01-01T00:00:00Z: now + 5 min is accepted, now +
\* 5 min + 1 s is rejected.
C24_TimestampPolicy ==
    call.fn = "validateTimestamp"
    => LET ts == call.args[1]
       IN  (call.out = "ok")
           <=> /\ ts.zone = "UTC"
               /\ ~ts.zero
               /\ ts.sec <= NowSec + 5 * 60
               /\ ts.sec >= NowSec - TenYears
               /\ ts.sec >= 0

\* exactly now + 5 minutes is accepted
C24_Witness ==
    /\ call.fn = "validateTimestamp"
    /\ call.args[1] = Timestamp("UTC", FALSE, NowSec + 5 * 60)
    /\ call.out = "ok"

\* C25: the timestamp checks run in the order non-UTC zone, zero time, future,
\* older than 10 years, before 2000, and the first that fails gives the
\* reason; a UTC timestamp before 2000 is therefore reported as too old, and
\* never as before year 2000.
C25_TimestampCheckOrder ==
    call.fn = "validateTimestamp"
    => LET ts == call.args[1]
       IN  /\ ts.zone # "UTC" => call.out = "timestamp must be in UTC timezone"
           /\ ts.zone = "UTC" /\ ts.zero => call.out = "timestamp cannot be zero"
           /\ ts.zone = "UTC" /\ ~ts.zero /\ ts.sec > NowSec + 5 * 60
                => call.out = "timestamp cannot be in the future"
           /\ ts.zone = "UTC" /\ ~ts.zero /\ ts.sec < NowSec - TenYears
                => call.out = "timestamp too old"
           /\ call.out # "timestamp before year 2000 is not allowed"

\* a UTC timestamp one second before 2000 is reported as too old
C25_Witness ==
    /\ call.fn = "validateTimestamp"
    /\ call.args[1] = Timestamp("UTC", FALSE, -1)
    /\ call.out = "timestamp too old"

\* a required field of the request is blank: from, to, body and, for inbound
\* webhooks, the provider message identifier
RequiredMissing(req) ==
    \/ IsBlank(req.from) \/ IsBlank(req.to) \/ IsBlank(req.body)
    \/ req.kind \in {"HandleInboundSMS", "HandleInboundEmail"} /\ IsBlank(req.pid)

RequiredReasons ==
    {"from address cannot be empty", "to address cannot be empty",
     "message body cannot be empty", "messaging provider ID cannot be empty",
     "xillio ID cannot be empty"}

\* C26: the validators check first that from, to, body and - for inbound
\* webhooks - the provider message identifier are not blank, then the type on
\* the SMS/MMS paths, then the timestamp, and stop at the first failure: a
\* request with a blank required field is rejected for a required field.
C26_ValidationOrder ==
    call.fn = "Validate"
    => LET req == call.args[1]
           typed == req.kind \in {"SendSMS", "HandleInboundSMS"}
           badType == typed /\ req.type \notin {MessageTypeSMS, MessageTypeMMS}
       IN  /\ RequiredMissing(req) => call.out \in RequiredReasons
           /\ ~RequiredMissing(req) /\ badType => call.out = "invalid message type"
           /\ ~RequiredMissing(req) /\ ~badType
                => call.out = validateTimestamp(req.ts, NowSec)

(***************************************************************************)
(* What the caller of an operation receives: the error the service returns *)
(* (the text of its outermost wrapper; "" is nil) and the status the HTTP  *)
(* handler answers with.                                                   *)
(***************************************************************************)
\* a service whose errors all read the same
ServiceErrorOpaque(t) == IF task[t].result = "ok" THEN "" ELSE "error"

ServiceError(t) ==
    LET kind == task[t].req.kind
        result == task[t].result
    IN  CASE result = "ok" -> ""
          [] result = "invalid request" ->
                (CASE kind = "SendSMS" -> "invalid SMS request"
                   [] kind = "SendEmail" -> "invalid email request"
                   [] kind = "HandleInboundSMS" -> "invalid inbound SMS webhook"
                   [] kind = "HandleInboundEmail" -> "invalid inbound email webhook")
          [] result = "provider failed" ->
                (IF kind = "SendEmail" THEN "failed to send email through provider"
                 ELSE "failed to send message through provider")
          [] result \in {"conversation failed", "message failed"} ->
                "failed to create message"

StatusOK == 200
StatusInternalServerError == 500

\* the handlers answer every error of the service with the same status
HandlerStatus(t) ==
    IF ServiceError(t) = "" THEN StatusOK ELSE StatusInternalServerError

InvalidTexts ==
    {"invalid SMS request", "invalid email request", "invalid inbound SMS webhook",
     "invalid inbound email webhook"}

\* C27: the error an operation returns tells which phase ended it.  A
\* validation failure returns an "invalid ..." error and nothing has happened;
\* a store failure after the provider accepted the message returns "failed to
\* create message"; a replayed inbound identifier returns success; and an
\* outbound operation returns each of the two errors in that situation only.
C27_OutcomeClasses ==
    \A t \in Tasks :
        Done(t)
        => LET out == ServiceError(t)
               req == task[t].req
           IN  /\ req \in InvalidRequests
                    => /\ out \in InvalidTexts
                       /\ task[t].calls = 0 /\ task[t].storeCalls = 0
                       /\ ~task[t].delivered
               /\ Outbound(req) /\ task[t].delivered /\ task[t].storeFailed # ""
                    => out = "failed to create message"
               /\ task[t].hit => out = "" /\ task[t].msgRows = 0
               /\ out \in InvalidTexts => req \in InvalidRequests
               /\ Outbound(req) /\ out = "failed to create message"
                    => task[t].delivered /\ task[t].msgRows = 0
               /\ out = "" => task[t].hit \/ task[t].msgRows = 1
               /\ "failed to create message" \notin InvalidTexts
               /\ "" \notin InvalidTexts

\* a send whose message the provider accepted and whose record the store
\* refused
C27_Witness ==
    \E t \in Tasks :
        /\ Done(t) /\ Outbound(task[t].req)
        /\ task[t].delivered /\ task[t].storeFailed = "messages.Create"
        /\ ServiceError(t) = "failed to create message"
        /\ HandlerStatus(t) = StatusInternalServerError

\* the rows of the store that match the filters of query q
Matching(store, q) == {c \in store.conversations : Matches(c, q)}

\* C28: for every query and every total the store returns, GetConversations
\* returns page = floor(offset / limit) + 1, perPage = limit and
\* hasMore = (offset + limit < total), offset and limit being those of the
\* query after the defaults.
C28_PaginationMath ==
    call.fn = "GetConversations" /\ call.out.err = ""
    => LET q == call.out.query
           r == call.out.response
       IN  /\ r.total = Cardinality(Matching(call.args[1], q))
           /\ r.page = (q.offset \div q.limit) + 1
           /\ r.perPage = q.limit
           /\ r.hasMore = (q.offset + q.limit < r.total)

\* limit = 1, offset = 0 against two conversations: hasMore, page 1
C28_Witness ==
    /\ call.fn = "GetConversations" /\ call.out.err = ""
    /\ call.args[2].limit = 1 /\ call.args[2].offset = 0
    /\ Cardinality(call.args[1].conversations) = 2
    /\ call.out.response.total = 2
    /\ call.out.response.hasMore /\ call.out.response.page = 1
    /\ Len(call.out.response.conversations) = 1

\* C29: GetConversations hands the store a query in which a limit <= 0 has
\* become 50, an offset < 0 has become 0, an empty sortBy updated_at and an
\* empty sortOrder desc, and leaves the other values as they were; the
\* limit is strictly positive when the page number is computed.
C29_DefaultsBeforeQuery ==
    call.fn = "GetConversations"
    => LET in == call.args[2]
           q == call.out.query
       IN  /\ q.limit = IF in.limit <= 0 THEN 50 ELSE in.limit
           /\ q.offset = IF in.offset < 0 THEN 0 ELSE in.offset
           /\ q.sortBy = IF in.sortBy = "" THEN "updated_at" ELSE in.sortBy
           /\ q.sortOrder = IF in.sortOrder = "" THEN "desc" ELSE in.sortOrder
           /\ q.limit > 0
           /\ call.out.err = "" => call.out.response.perPage > 0

\* a query with nothing set is answered with the first page of 50
C29_Witness ==
    /\ call.fn = "GetConversations" /\ call.out.err = ""
    /\ call.args[2].limit = 0 /\ call.args[2].offset = -1
    /\ call.args[2].sortBy = "" /\ call.args[2].sortOrder = ""
    /\ call.out.query.limit = 50 /\ call.out.query.offset = 0
    /\ call.out.response.page = 1 /\ call.out.response.perPage = 50
    /\ Len(call.out.response.conversations) = 3

\* C30: with includeMessages every conversation returned carries exactly the
\* messages the store holds for it, in ascending order of creation; without
\* it no message is fetched; and when the fetch of the messages of a
\* conversation of the page fails, the call returns an error and no response.
C30_IncludeMessages ==
    call.fn = "GetConversations"
    => LET store == call.args[1]
           fault == call.args[3]
           q == call.out.query
           r == call.out.response
           fetched == {call.out.fetched[i] : i \in 1..Len(call.out.fetched)}
       IN  /\ q.includeMessages /\ call.out.err = ""
                => \A i \in 1..Len(r.conversations) :
                      LET c == r.conversations[i]
                          stored == {m \in store.messages : m.conversation_id = c.id}
                      IN  /\ {c.messages[k] : k \in 1..Len(c.messages)} = stored
                          /\ Len(c.messages) = Cardinality(stored)
                          /\ \A k, l \in 1..Len(c.messages) :
                                k < l => c.messages[k].created_at <= c.messages[l].created_at
           /\ ~q.includeMessages
                => /\ fetched = {}
                   /\ \A i \in 1..Len(r.conversations) : r.conversations[i].messages = << >>
           /\ fault.at = "messages" /\ fault.conv \in fetched
                => call.out.err # "" /\ r.nil
           /\ q.includeMessages /\ call.out.err = ""
                => fetched = {r.conversations[i].id : i \in 1..Len(r.conversations)}

\* two conversations are returned with their messages, the first with three
\* of which the one created first was inserted second
C30_Witness ==
    /\ call.fn = "GetConversations" /\ call.out.err = ""
    /\ call.out.query.includeMessages
    /\ Len(call.out.response.conversations) = 2
    /\ \E i \in 1..2 :
          LET c == call.out.response.conversations[i]
          IN  /\ Len(c.messages) = 3
              /\ c.messages[1].id = 3

\* C31: GetConversationMessages(id) returns a not-found error, and reads no
\* message, when the store holds no conversation with this id; otherwise it
\* returns the messages of that conversation in ascending order of creation.
C31_MessagesOrNotFound ==
    call.fn = "GetConversationMessages" /\ call.args[3] = NoFault
    => LET store == call.args[1]
           id == call.args[2]
           out == call.out
           stored == {m \in store.messages : m.conversation_id = id}
       IN  IF \A c \in store.conversations : c.id # id
           THEN /\ out.err = "conversation not found"
                /\ out.messages = << >>
                /\ \A i \in 1..Len(out.calls) : out.calls[i] # "GetByConversationID"
           ELSE /\ out.err = ""
                /\ {out.messages[k] : k \in 1..Len(out.messages)} = stored
                /\ Len(out.messages) = Cardinality(stored)
                /\ \A k, l \in 1..Len(out.messages) :
                      k < l => out.messages[k].created_at <= out.messages[l].created_at

\* an id no conversation has, asked of a store that holds messages
C31_Witness ==
    /\ call.fn = "GetConversationMessages" /\ call.args[3] = NoFault
    /\ call.args[2] = 3
    /\ Cardinality(call.args[1].messages) = 4
    /\ call.out.err = "conversation not found"
    /\ call.out.calls = <<"GetByID">>

ReadOperations == {"List", "GetByID", "GetByConversationID"}

C33_UpdatedAtTouched ==
    [][ /\ \A c \in conversations :
              \E d \in conversations' :
                  /\ d.id = c.id
                  /\ d.customer_contact = c.customer_contact
                  /\ d.business_contact = c.business_contact
                  /\ d.created_at = c.created_at
        /\ \A t \in Tasks, m \in messages' \ messages :
              task[t].pc = "create_msg" /\ task'[t].pc = "done" /\ task[t].convRows = 0
              => \E d \in conversations' :
                    d.id = m.conversation_id /\ d.updated_at >= m.created_at ]_vars

\* C34: every persisted message belongs to the conversation whose
\* (customer_contact, business_contact) is the pair normalizeContacts gives
\* for the sender and the recipient of the message.
C34_MessageInNormalizedConversation ==
    \A m \in messages :
        \E c \in conversations :
            /\ c.id = m.conversation_id
            /\ <<c.customer_contact, c.business_contact>> = normalizeContacts(m.from, m.to)

InRetry(t) == task[t].pc \in {"provider", "backoff"}

\* C35: when every provider call returns and every backoff timer fires
\* unless the context is cancelled, retryWithBackoff eventually returns,
\* whatever the provider answers, and the send eventually completes.
C35_RetryTerminates ==
    \A t \in Tasks :
        /\ InRetry(t) ~> ~InRetry(t)
        /\ (Active(t) /\ Outbound(task[t].req)) ~> Done(t)

\* a send that has used every attempt and every delay has returned
C35_Witness ==
    \E t \in Tasks :
        /\ Done(t) /\ Outbound(task[t].req)
        /\ task[t].calls = MaxRetries + 1 /\ task[t].delays = MaxRetries
        /\ task[t].err # NoErr

\* C36: a validated send invokes the provider at least once and at most
\* MaxRetries + 1 times, and invokes it again only after attempts that all
\* failed with a retryable error: never after a success, never after a
\* non-retryable error.
C36_ProviderInvocations ==
    \A t \in Tasks :
        /\ task[t].calls <= MaxRetries + 1
        /\ task[t].pc = "provider"
             => /\ task[t].calls <= MaxRetries
                /\ task[t].fails = task[t].calls
                /\ task[t].firstOk = 0
        /\ task[t].pc = "backoff" => task[t].fails = task[t].calls
        /\ task[t].pc = "sent"
             => task[t].calls >= 1 /\ task[t].firstOk = task[t].calls
        /\ Done(t) /\ task[t].result = "provider failed" => task[t].calls >= 1

\* the provider accepted the message at the last attempt allowed
C36_Witness ==
    \E t \in Tasks :
        /\ task[t].pc = "sent"
        /\ task[t].calls = MaxRetries + 1 /\ task[t].firstOk = MaxRetries + 1

\* C37: an inbound SMS or email webhook that arrives without a timestamp is
\* given the current time by its handler and then passes the validation of
\* the service.
C37_DefaultedWebhookAccepted ==
    /\ call.fn = "Handler"
    /\ call.args[1].kind \in {"HandleInboundSMS", "HandleInboundEmail"}
    /\ call.args[1].ts.zero
    => /\ ~call.out.req.ts.zero
       /\ call.out.req.ts.sec = NowSec
       /\ call.out.err = "ok"

\* C38: a send observes the cancellation of its context only in the wait
\* between two attempts.  The engine returns the cancellation error only
\* from a wait, after attempts that all failed with a retryable error; a
\* send cancelled before its first attempt has still made that attempt when
\* it leaves the engine, and goes on to its store calls when the provider
\* accepted the message; a send whose wait was cancelled makes no store call.
C38_CancellationOnlyAtDelay ==
    \A t \in Tasks :
        /\ task[t].retryErr = CtxErr
             => /\ Done(t) /\ task[t].ctxDone
                /\ task[t].calls >= 1 /\ task[t].calls <= MaxRetries
                /\ task[t].fails = task[t].calls
                /\ task[t].storeCalls = 0 /\ task[t].convRows = 0 /\ task[t].msgRows = 0
        /\ task[t].ctxDone /\ task[t].pc = "sent" => task[t].calls >= 1
        /\ task[t].ctxDone /\ Done(t) /\ Outbound(task[t].req) /\ task[t].delivered
             => task[t].storeCalls >= 1

\* a send cancelled before its first attempt, whose first attempt succeeded,
\* with its store calls ahead
C38_Witness ==
    \E t \in Tasks :
        /\ task[t].pc = "sent" /\ task[t].ctxDone
        /\ task[t].cancelPc = "provider"
        /\ task[t].calls = 1 /\ task[t].firstOk = 1

\* a message of the other inbound channel is stored under the identifier of
\* the webhook of t
StoredByOtherChannel(t) ==
    \E m \in messages :
        /\ m.provider_message_id = task[t].req.pid
        /\ (m.type = MessageTypeEmail) # (task[t].req.kind = "HandleInboundEmail")

\* C39: the two inbound channels share one space of identifiers.  When the
\* handlers run one after the other, an inbound email whose xillio_id is the
\* provider message id of a stored inbound SMS, or an inbound SMS whose id is
\* that of a stored email, is treated as a replay: the handler returns
\* success and adds no row, and the message of the webhook is not stored.
C39_SharedIdempotencyKeys ==
    \A t \in Tasks :
        /\ Done(t) /\ Inbound(t) /\ task[t].req \in ValidRequests
        /\ ~overlap /\ StoredByOtherChannel(t)
        => /\ task[t].hit
           /\ task[t].result = "ok" /\ task[t].err = NoErr
           /\ task[t].msgRows = 0 /\ task[t].convRows = 0
           /\ \A m \in WithProviderID(task[t].req.pid) :
                 (m.type = MessageTypeEmail) # (task[t].req.kind = "HandleInboundEmail")

\* an inbound email answered with success while the one message stored under
\* its identifier is an SMS
C39_Witness ==
    \E t \in Tasks :
        /\ Done(t) /\ task[t].req.kind = "HandleInboundEmail" /\ task[t].hit
        /\ task[t].result = "ok" /\ task[t].msgRows = 0
        /\ Cardinality(messages) = 1
        /\ \A m \in messages :
              m.type = MessageTypeSMS /\ m.provider_message_id = task[t].req.pid

\* C40: the delay computed without a retry-after hint is never negative,
\* never below min(BaseDelay, MaxDelay), never above MaxDelay, and not
\* smaller for a later attempt - also where BaseDelay * 2^attempt leaves the
\* range of an int64.
C40_DelayWithinBounds ==
    call.fn = "BackoffDelay64"
    => LET delay == call.out
           floor == IF Less64(MaxDelay64, BaseDelay64) THEN MaxDelay64 ELSE BaseDelay64
       IN  /\ ~Negative64(delay)
           /\ ~Less64(delay, floor)
           /\ ~Less64(MaxDelay64, delay)
           /\ ~Less64(BackoffDelay64(call.args[1] + 1), delay)

====
